---- MODULE Spec2Model ----
\* Model of rest/zone.go: ZonesService.List, Get, Create, Update, Delete and
\* the pagination helpers nextZones / nextRecords.  One call of one operation
\* is followed from its entry to its return, one step per request built
\* (client.NewRequest) and per HTTP exchange (client.Do).  The transport and
\* the server are the environment: every exchange may succeed with any page
\* and any Link header, or fail with any error.
EXTENDS Naturals, Sequences, FiniteSets, TLC

\* ------------------------------------------------------------------ bounds
MaxCalls == 3      \* HTTP exchanges one call may perform before the model stops it
MaxPageLen == 2    \* items (zones or records) carried by one page

\* ------------------------------------------------------------------ values
\* An optional value (a Go pointer or interface that may be nil) is a
\* sequence of length at most one.
Nil == << >>
Some(x) == << x >>

Names == {"a", "b"}          \* zone names
Recs == {"r1", "r2"}         \* records of a zone
TTLs == {"t1", "t2"}         \* values of a non-record field of a zone
URIs == {"u1", "u2"}         \* addresses a continuation pointer may name
Rels == {"next", "prev"}     \* relations of a Link header entry

\* The names a caller may pass: those of zones, the empty name and a name
\* holding a path separator.
ZoneArgs == Names \cup {"", "a/b"}

UpTo(S, n) == UNION {[1..k -> S] : k \in 0..n}

\* A page lists an item at most once (a zone is identified by its name, a
\* record by its record set); different pages may repeat an item.
Pages(S, n) == {s \in UpTo(S, n) : \A i, j \in DOMAIN s : i # j => s[i] # s[j]}

\* dns.Zone: the name, one representative configuration field, the records.
Zones == [Zone : Names, TTL : TTLs, Records : Pages(Recs, MaxPageLen)]

\* The zones a caller may hand to Create / Update.
CallerZones == [Zone : ZoneArgs, TTL : TTLs, Records : Pages(Recs, MaxPageLen)]

\* The representations the server may send of the zone called name.
ZonesNamed(name) == {p \in Zones : p.Zone = name}

\* The zero value of dns.Zone (var z dns.Zone).
ZeroZone == [Zone |-> "", TTL |-> "", Records |-> << >>]

\* The value of a response's Link header: entries <uri>; rel="...".
LinkHeaders == {<< >>} \cup {<< [uri |-> u, rel |-> r] >> : u \in URIs, r \in Rels}

\* ParseLink: the header's entries as a map from relation to address.
ParseLink(h) ==
    [r \in {h[i].rel : i \in DOMAIN h} |->
        (CHOOSE e \in {h[i] : i \in DOMAIN h} : e.rel = r).uri]

\* Links.Next: the address of the "next" relation, "" when there is none.
LinksNext(links) == IF "next" \in DOMAIN links THEN links["next"] ELSE ""

\* ------------------------------------------------------------------ errors
\* An error value is identified by its dynamic type, its message and the
\* exchange (or construction) that produced it; the two package-level
\* sentinels are produced by no exchange.
ErrZoneExists == [type |-> "errorString", Message |-> "zone already exists", id |-> 0]
ErrZoneMissing == [type |-> "errorString", Message |-> "zone does not exist", id |-> 0]

Messages == {"zone not found", "zone already exists", "rate limit exceeded"}

\* Errors client.Do may return for exchange n: a structured *Error carrying
\* the server's message, or an opaque transport / decoding error.
DoErrors(n) ==
    {[type |-> "*Error", Message |-> m, id |-> n] : m \in Messages}
    \cup {[type |-> "opaque", Message |-> m, id |-> n] : m \in {"zone not found", "EOF"}}

\* ------------------------------------------------------------------ state
VARIABLES
    FollowPagination,  \* s.client.FollowPagination, set when the client is built
    pc,                \* where the call stands: idle, do, next, nextDo, done
    op,                \* the operation called: List, Get, Create, Update, Delete
    zone,              \* the zone name given to Get / Delete
    callerZone,        \* the caller's dns.Zone that Create / Update point to
    req,               \* the request built and not yet executed
    zl,                \* List's accumulator
    z,                 \* Get's accumulator
    resp,              \* the response of the initial request
    nextResp,          \* the response of the latest follow-up request
    nextURI,           \* the continuation pointer being followed
    ret,               \* what the call returned: data, resp, err
    log,               \* the exchanges the transport executed, in order
    heap,              \* concurrent calls: the zone objects callers hold
    calls              \* concurrent calls: each call's locals and exchanges

\* The variables of the single call followed by Spec.
callVars == <<pc, op, zone, callerZone, req, zl, z, resp, nextResp, nextURI, ret, log>>

vars == <<FollowPagination, pc, op, zone, callerZone, req, zl, z, resp,
          nextResp, nextURI, ret, log, heap, calls>>

Ret(d, r, e) == [data |-> d, resp |-> r, err |-> e]

\* ------------------------------------------------------------------ transport
\* client.NewRequest: a request, or a construction error and no request.
NewRequest(method, path, body, n) ==
    { [req |-> Some([method |-> method, path |-> path, body |-> body]), err |-> Nil],
      [req |-> Nil, err |-> Some([type |-> "construct", Message |-> "invalid URL", id |-> n])] }

\* client.Do(req, v) for exchange n: on success a response with any Link
\* header and a body out of `bodies` decoded into v; on failure an error,
\* with or without a response, and nothing decoded.
Do(bodies, n) ==
    { [resp |-> Some([id |-> n, Link |-> h]), err |-> Nil, body |-> b] :
          h \in LinkHeaders, b \in bodies }
    \cup { [resp |-> r, err |-> Some(e), body |-> Nil] :
          r \in {Nil, Some([id |-> n, Link |-> << >>])}, e \in DoErrors(n) }

\* The log after executing the pending request with outcome o.
Logged(o) == Append(log, [req |-> req, resp |-> o.resp, err |-> o.err, body |-> o.body])

\* ParseLink(resp.Header.Get("Link")).Next()
NextOf(r) == LinksNext(ParseLink(r[1].Link))

\* ------------------------------------------------------------------ concurrent callers
\* The goroutines that call the one client at the same time.
Procs == {1, 2}

\* The zone objects the callers of Create / Update hold pointers to.
ObjIds == {1, 2}

InitHeap ==
    [o \in ObjIds |->
        [Zone |-> IF o = 1 THEN "a" ELSE "b", TTL |-> "t1", Records |-> << >>]]

\* The locals of a call that has not started; `log` are the exchanges the
\* transport executed for it and `start` the number of exchanges executed
\* by all calls when it started.
IdleCall ==
    [pc |-> "idle", op |-> "", ptr |-> 0, req |-> Nil, zl |-> << >>,
     resp |-> Nil, nextResp |-> Nil, nextURI |-> "", ret |-> Ret(Nil, Nil, Nil),
     log |-> << >>, start |-> 0]

Init ==
    /\ heap = InitHeap
    /\ calls = [p \in Procs |-> IdleCall]
    /\ FollowPagination \in BOOLEAN
    /\ pc = "idle"
    /\ op = ""
    /\ zone = ""
    /\ callerZone = ZeroZone
    /\ req = Nil
    /\ zl = << >>
    /\ z = ZeroZone
    /\ resp = Nil
    /\ nextResp = Nil
    /\ nextURI = ""
    /\ ret = Ret(Nil, Nil, Nil)
    /\ log = << >>

\* ------------------------------------------------------------------ List
\* Mutant of ListRequestFailed: the construction error is not looked at.
ListRequestFailedNever(err) == FALSE

\* if err != nil after NewRequest (line 19)
ListRequestFailed(err) == err # Nil

\* Mutant of ListFollows: the configuration flag is not consulted.
ListFollowsAlways == TRUE

\* if s.client.FollowPagination == true (line 29)
ListFollows == FollowPagination = TRUE

\* Mutant of ListWalkError: the follow-up's response is handed out.
ListWalkErrorLatest(acc, first, latest, err) == Ret(Nil, latest, err)

\* Mutant of ListWalkError: the pages accumulated so far are handed out.
ListWalkErrorPartial(acc, first, latest, err) == Ret(Some(acc), first, err)

\* return nil, resp, err inside the loop (line 35)
ListWalkError(acc, first, latest, err) == Ret(Nil, first, err)

\* Mutant of ListReturn: the response of the last page fetched is handed out.
ListReturnLatest(acc, first, latest) ==
    Ret(Some(acc), IF latest = Nil THEN first ELSE latest, Nil)

\* return zl, resp, nil (line 41)
ListReturn(acc, first, latest) == Ret(Some(acc), first, Nil)

\* Mutant of AppendZones: the page is put in front of the accumulator.
AppendZonesInFront(acc, tmpZl) == tmpZl \o acc

\* for z := range tmpZl { *zl = append(*zl, tmpZl[z]) } (lines 92-94)
AppendZones(acc, tmpZl) == acc \o tmpZl

\* Mutant of ListNextTarget: the follow-up goes to the listing's own path.
ListNextTargetRederived(uri) == <<"zones">>

\* s.client.NewRequest("GET", uri, nil) in nextZones (line 83): the
\* continuation pointer is the whole target of the follow-up request.
ListNextTarget(uri) == <<uri>>

\* Mutant of ListFailedStep: the page is decoded straight into the
\* accumulator, which a failed exchange leaves emptied.
ListFailedStepInPlace(acc) == << >>

\* nextZones, lines 87-91: the page is decoded into the fresh tmpZl and the
\* function returns before the append; the accumulator is as it was.
ListFailedStep(acc) == acc

\* Mutant of ListContinues: the loop does not test the pointer.
ListContinuesAlways(uri) == TRUE

\* Mutant of ListContinues: the loop stops at an address already requested.
ListContinuesUnseen(uri) ==
    /\ uri # ""
    /\ req[1].path # <<uri>>
    /\ \A i \in 1..Len(log) : log[i].req[1].path # <<uri>>

\* for nextURI != "" (line 32)
ListContinues(uri) == uri # ""

\* The pages a zones listing may carry.
ZonePages == Pages(Names, MaxPageLen)

\* List, lines 17-23: build the initial request.
ListNewRequest ==
    /\ pc = "idle"
    /\ op' = "List"
    /\ \E r \in NewRequest("GET", <<"zones">>, Nil, Len(log)) :
          IF ListRequestFailed(r.err)
          THEN /\ ret' = Ret(Nil, Nil, r.err)
               /\ pc' = "done"
               /\ UNCHANGED <<req, zl>>
          ELSE /\ req' = r.req
               /\ zl' = << >>
               /\ pc' = "do"
               /\ UNCHANGED ret
    /\ UNCHANGED <<heap, calls, FollowPagination, zone, callerZone, z, resp, nextResp, nextURI, log>>

\* List, lines 24-41: execute the initial request, then enter the loop or return.
ListDo ==
    /\ pc = "do" /\ op = "List"
    /\ Len(log) < MaxCalls
    /\ \E o \in Do({Some(p) : p \in ZonePages}, Len(log) + 1) :
          /\ log' = Logged(o)
          /\ resp' = o.resp
          /\ IF o.err # Nil
             THEN /\ ret' = Ret(Nil, o.resp, o.err)
                  /\ pc' = "done"
                  /\ UNCHANGED <<zl, nextURI>>
             ELSE /\ zl' = o.body[1]
                  /\ IF ListFollows
                     THEN /\ nextURI' = NextOf(o.resp)
                          /\ IF ListContinues(nextURI')
                             THEN pc' = "next" /\ UNCHANGED ret
                             ELSE pc' = "done" /\ ret' = ListReturn(zl', resp', nextResp)
                     ELSE /\ pc' = "done"
                          /\ ret' = ListReturn(zl', resp', nextResp)
                          /\ UNCHANGED nextURI
    /\ UNCHANGED <<heap, calls, FollowPagination, op, zone, callerZone, req, z, nextResp>>

\* nextZones, lines 82-86, called from line 33: build the follow-up request.
ListNextRequest ==
    /\ pc = "next" /\ op = "List"
    /\ \E r \in NewRequest("GET", ListNextTarget(nextURI), Nil, Len(log)) :
          IF r.err # Nil
          THEN /\ nextResp' = Nil
               /\ ret' = ListWalkError(zl, resp, nextResp', r.err)
               /\ pc' = "done"
               /\ UNCHANGED req
          ELSE /\ req' = r.req
               /\ pc' = "nextDo"
               /\ UNCHANGED <<ret, nextResp>>
    /\ UNCHANGED <<heap, calls, FollowPagination, op, zone, callerZone, zl, z, resp, nextURI, log>>

\* nextZones, lines 87-95, and the loop of List, lines 32-41: execute the
\* follow-up request, append its page, read the next continuation pointer.
ListNextDo ==
    /\ pc = "nextDo" /\ op = "List"
    /\ Len(log) < MaxCalls
    /\ \E o \in Do({Some(p) : p \in ZonePages}, Len(log) + 1) :
          /\ log' = Logged(o)
          /\ IF o.err # Nil
             THEN /\ nextResp' = Nil
                  /\ zl' = ListFailedStep(zl)
                  /\ ret' = ListWalkError(zl', resp, nextResp', o.err)
                  /\ pc' = "done"
                  /\ UNCHANGED nextURI
             ELSE /\ zl' = AppendZones(zl, o.body[1])
                  /\ nextResp' = o.resp
                  /\ nextURI' = NextOf(nextResp')
                  /\ IF ListContinues(nextURI')
                     THEN pc' = "next" /\ UNCHANGED ret
                     ELSE pc' = "done" /\ ret' = ListReturn(zl', resp, nextResp')
    /\ UNCHANGED <<heap, calls, FollowPagination, op, zone, callerZone, req, z, resp>>

\* ------------------------------------------------------------------ Get
\* The switch on the error of the initial request (lines 58-64).
GetError(err) ==
    IF err.type = "*Error" /\ err.Message = "zone not found"
    THEN ErrZoneMissing
    ELSE err

\* if s.client.FollowPagination == true (line 67)
GetFollows == FollowPagination = TRUE

\* Mutant of GetWalkError: the follow-up's response is handed out.
GetWalkErrorLatest(acc, first, latest, err) == Ret(Nil, latest, err)

\* return nil, resp, err inside the loop (line 73)
GetWalkError(acc, first, latest, err) == Ret(Nil, first, err)

\* return &z, resp, nil (line 79)
GetReturn(acc, first, latest) == Ret(Some(acc), first, Nil)

\* Mutant of AppendRecords: the whole page replaces the zone, records merged.
AppendRecordsWholePage(acc, tmpZone) ==
    [tmpZone EXCEPT !.Records = acc.Records \o tmpZone.Records]

\* for r := range tmpZone.Records { z.Records = append(z.Records, ...) }
\* (lines 108-112): only the records of the page are taken.
AppendRecords(acc, tmpZone) ==
    [acc EXCEPT !.Records = acc.Records \o tmpZone.Records]

\* s.client.NewRequest("GET", uri, nil) in nextRecords (line 99).
GetNextTarget(uri) == <<uri>>

\* Mutant of GetPath: the name is escaped before it is put into the path.
GetPathEscaped(name) == <<"zones", IF name = "a/b" THEN "a%2Fb" ELSE name>>

\* path := fmt.Sprintf("zones/%s", zone) (line 48)
GetPath(name) == <<"zones", name>>

\* nextRecords, lines 103-107: the page is decoded into the fresh tmpZone and
\* the function returns before the append; the accumulator is as it was.
GetFailedStep(acc) == acc

\* for nextURI != "" (line 70)
GetContinues(uri) == uri # ""

\* Get, lines 47-55: build the initial request.
GetNewRequest ==
    /\ pc = "idle"
    /\ op' = "Get"
    /\ \E name \in ZoneArgs :
          /\ zone' = name
          /\ \E r \in NewRequest("GET", GetPath(name), Nil, Len(log)) :
                IF r.err # Nil
                THEN /\ ret' = Ret(Nil, Nil, r.err)
                     /\ pc' = "done"
                     /\ UNCHANGED <<req, z>>
                ELSE /\ req' = r.req
                     /\ z' = ZeroZone
                     /\ pc' = "do"
                     /\ UNCHANGED ret
    /\ UNCHANGED <<heap, calls, FollowPagination, callerZone, zl, resp, nextResp, nextURI, log>>

\* Get, lines 56-79: execute the initial request, classify its error, then
\* enter the loop or return.
GetDo ==
    /\ pc = "do" /\ op = "Get"
    /\ Len(log) < MaxCalls
    /\ \E o \in Do({Some(p) : p \in ZonesNamed(zone)}, Len(log) + 1) :
          /\ log' = Logged(o)
          /\ resp' = o.resp
          /\ IF o.err # Nil
             THEN /\ ret' = Ret(Nil, o.resp, Some(GetError(o.err[1])))
                  /\ pc' = "done"
                  /\ UNCHANGED <<z, nextURI>>
             ELSE /\ z' = o.body[1]
                  /\ IF GetFollows
                     THEN /\ nextURI' = NextOf(o.resp)
                          /\ IF GetContinues(nextURI')
                             THEN pc' = "next" /\ UNCHANGED ret
                             ELSE pc' = "done" /\ ret' = GetReturn(z', resp', nextResp)
                     ELSE /\ pc' = "done"
                          /\ ret' = GetReturn(z', resp', nextResp)
                          /\ UNCHANGED nextURI
    /\ UNCHANGED <<heap, calls, FollowPagination, op, zone, callerZone, req, zl, nextResp>>

\* nextRecords, lines 98-102, called from line 71: build the follow-up request.
GetNextRequest ==
    /\ pc = "next" /\ op = "Get"
    /\ \E r \in NewRequest("GET", GetNextTarget(nextURI), Nil, Len(log)) :
          IF r.err # Nil
          THEN /\ nextResp' = Nil
               /\ ret' = GetWalkError(z, resp, nextResp', r.err)
               /\ pc' = "done"
               /\ UNCHANGED req
          ELSE /\ req' = r.req
               /\ pc' = "nextDo"
               /\ UNCHANGED <<ret, nextResp>>
    /\ UNCHANGED <<heap, calls, FollowPagination, op, zone, callerZone, zl, z, resp, nextURI, log>>

\* nextRecords, lines 103-113, and the loop of Get, lines 70-79: execute the
\* follow-up request, append its records, read the next continuation pointer.
GetNextDo ==
    /\ pc = "nextDo" /\ op = "Get"
    /\ Len(log) < MaxCalls
    /\ \E o \in Do({Some(p) : p \in ZonesNamed(zone)}, Len(log) + 1) :
          /\ log' = Logged(o)
          /\ IF o.err # Nil
             THEN /\ nextResp' = Nil
                  /\ z' = GetFailedStep(z)
                  /\ ret' = GetWalkError(z', resp, nextResp', o.err)
                  /\ pc' = "done"
                  /\ UNCHANGED nextURI
             ELSE /\ z' = AppendRecords(z, o.body[1])
                  /\ nextResp' = o.resp
                  /\ nextURI' = NextOf(nextResp')
                  /\ IF GetContinues(nextURI')
                     THEN pc' = "next" /\ UNCHANGED ret
                     ELSE pc' = "done" /\ ret' = GetReturn(z', resp, nextResp')
    /\ UNCHANGED <<heap, calls, FollowPagination, op, zone, callerZone, req, zl, resp>>

\* ------------------------------------------------------------------ Create
\* Mutant of CreateError: the server's error is returned as it came.
CreateErrorRaw(err) == err

\* Mutant of CreateError: every known message is classified, whatever the
\* operation.
CreateErrorAnyKnown(err) ==
    IF err.type = "*Error" /\ err.Message = "zone already exists"
    THEN ErrZoneExists
    ELSE IF err.type = "*Error" /\ err.Message = "zone not found"
         THEN ErrZoneMissing
         ELSE err

\* The switch on the error of the request (lines 130-136).
CreateError(err) ==
    IF err.type = "*Error" /\ err.Message = "zone already exists"
    THEN ErrZoneExists
    ELSE err

\* path := fmt.Sprintf("zones/%s", z.Zone) (line 120)
CreatePath(name) == <<"zones", name>>

\* Mutant of CreateDecoded: the response is decoded into a private copy.
CreateDecodedIntoCopy(target, body) == target

\* s.client.Do(req, &z) (line 128): the response body is decoded into the
\* zone the caller's pointer names; the result is that zone afterwards.
CreateDecoded(target, body) == body

\* Create, lines 119-125: build the PUT request carrying the caller's zone.
CreateNewRequest ==
    /\ pc = "idle"
    /\ op' = "Create"
    /\ \E given \in CallerZones :
          /\ callerZone' = given
          /\ \E r \in NewRequest("PUT", CreatePath(given.Zone), Some(given), Len(log)) :
                IF r.err # Nil
                THEN /\ ret' = Ret(Nil, Nil, r.err)
                     /\ pc' = "done"
                     /\ UNCHANGED req
                ELSE /\ req' = r.req
                     /\ pc' = "do"
                     /\ UNCHANGED ret
    /\ UNCHANGED <<heap, calls, FollowPagination, zone, zl, z, resp, nextResp, nextURI, log>>

\* Create, lines 127-139: execute the request; the response body is decoded
\* into the caller's zone.
CreateDo ==
    /\ pc = "do" /\ op = "Create"
    /\ Len(log) < MaxCalls
    /\ \E o \in Do({Some(p) : p \in ZonesNamed(callerZone.Zone)}, Len(log) + 1) :
          /\ log' = Logged(o)
          /\ resp' = o.resp
          /\ IF o.err # Nil
             THEN /\ ret' = Ret(Nil, o.resp, Some(CreateError(o.err[1])))
                  /\ UNCHANGED callerZone
             ELSE /\ callerZone' = CreateDecoded(callerZone, o.body[1])
                  /\ ret' = Ret(Nil, o.resp, Nil)
    /\ pc' = "done"
    /\ UNCHANGED <<heap, calls, FollowPagination, op, zone, req, zl, z, nextResp, nextURI>>

\* ------------------------------------------------------------------ Update
\* The switch on the error of the request (lines 156-162).
UpdateError(err) ==
    IF err.type = "*Error" /\ err.Message = "zone not found"
    THEN ErrZoneMissing
    ELSE err

\* path := fmt.Sprintf("zones/%s", z.Zone) (line 146)
UpdatePath(name) == <<"zones", name>>

\* s.client.Do(req, &z) (line 154): as in Create.
UpdateDecoded(target, body) == body

\* Update, lines 145-151: build the POST request carrying the caller's zone.
UpdateNewRequest ==
    /\ pc = "idle"
    /\ op' = "Update"
    /\ \E given \in CallerZones :
          /\ callerZone' = given
          /\ \E r \in NewRequest("POST", UpdatePath(given.Zone), Some(given), Len(log)) :
                IF r.err # Nil
                THEN /\ ret' = Ret(Nil, Nil, r.err)
                     /\ pc' = "done"
                     /\ UNCHANGED req
                ELSE /\ req' = r.req
                     /\ pc' = "do"
                     /\ UNCHANGED ret
    /\ UNCHANGED <<heap, calls, FollowPagination, zone, zl, z, resp, nextResp, nextURI, log>>

\* Update, lines 153-165: execute the request; the response body is decoded
\* into the caller's zone.
UpdateDo ==
    /\ pc = "do" /\ op = "Update"
    /\ Len(log) < MaxCalls
    /\ \E o \in Do({Some(p) : p \in ZonesNamed(callerZone.Zone)}, Len(log) + 1) :
          /\ log' = Logged(o)
          /\ resp' = o.resp
          /\ IF o.err # Nil
             THEN /\ ret' = Ret(Nil, o.resp, Some(UpdateError(o.err[1])))
                  /\ UNCHANGED callerZone
             ELSE /\ callerZone' = UpdateDecoded(callerZone, o.body[1])
                  /\ ret' = Ret(Nil, o.resp, Nil)
    /\ pc' = "done"
    /\ UNCHANGED <<heap, calls, FollowPagination, op, zone, req, zl, z, nextResp, nextURI>>

\* ------------------------------------------------------------------ Delete
\* Mutant of DeleteError: the server's error is returned as it came.
DeleteErrorRaw(err) == err

\* The switch on the error of the request (lines 181-187).
DeleteError(err) ==
    IF err.type = "*Error" /\ err.Message = "zone not found"
    THEN ErrZoneMissing
    ELSE err

\* path := fmt.Sprintf("zones/%s", zone) (line 172)
DeletePath(name) == <<"zones", name>>

\* Delete, lines 171-177: build the DELETE request, without a body.
DeleteNewRequest ==
    /\ pc = "idle"
    /\ op' = "Delete"
    /\ \E name \in ZoneArgs :
          /\ zone' = name
          /\ \E r \in NewRequest("DELETE", DeletePath(name), Nil, Len(log)) :
                IF r.err # Nil
                THEN /\ ret' = Ret(Nil, Nil, r.err)
                     /\ pc' = "done"
                     /\ UNCHANGED req
                ELSE /\ req' = r.req
                     /\ pc' = "do"
                     /\ UNCHANGED ret
    /\ UNCHANGED <<heap, calls, FollowPagination, callerZone, zl, z, resp, nextResp, nextURI, log>>

\* Delete, lines 179-190: execute the request; nothing is decoded.
DeleteDo ==
    /\ pc = "do" /\ op = "Delete"
    /\ Len(log) < MaxCalls
    /\ \E o \in Do({Nil}, Len(log) + 1) :
          /\ log' = Logged(o)
          /\ resp' = o.resp
          /\ IF o.err # Nil
             THEN ret' = Ret(Nil, o.resp, Some(DeleteError(o.err[1])))
             ELSE ret' = Ret(Nil, o.resp, Nil)
    /\ pc' = "done"
    /\ UNCHANGED <<heap, calls, FollowPagination, op, zone, callerZone, req, zl, z, nextResp, nextURI>>

Next ==
    \/ CreateNewRequest
    \/ CreateDo
    \/ UpdateNewRequest
    \/ UpdateDo
    \/ DeleteNewRequest
    \/ DeleteDo
    \/ ListNewRequest
    \/ ListDo
    \/ ListNextRequest
    \/ ListNextDo
    \/ GetNewRequest
    \/ GetDo
    \/ GetNextRequest
    \/ GetNextDo

Spec == Init /\ [][Next]_vars

\* ------------------------------------------------------------------ a finite chain
\* The server's chain of pages ends: the response of exchange MaxCalls, the
\* longest chain followed here, carries no continuation pointer.
FiniteChain ==
    (Len(log) = MaxCalls /\ log[MaxCalls].err = Nil) =>
        NextOf(log[MaxCalls].resp) = ""

NextFinite ==
    \/ CreateNewRequest /\ FiniteChain'
    \/ CreateDo /\ FiniteChain'
    \/ UpdateNewRequest /\ FiniteChain'
    \/ UpdateDo /\ FiniteChain'
    \/ DeleteNewRequest /\ FiniteChain'
    \/ DeleteDo /\ FiniteChain'
    \/ ListNewRequest /\ FiniteChain'
    \/ ListDo /\ FiniteChain'
    \/ ListNextRequest /\ FiniteChain'
    \/ ListNextDo /\ FiniteChain'
    \/ GetNewRequest /\ FiniteChain'
    \/ GetDo /\ FiniteChain'
    \/ GetNextRequest /\ FiniteChain'
    \/ GetNextDo /\ FiniteChain'

\* Every HTTP call returns and the calling goroutine keeps running: a step
\* that can be taken is taken.
SpecFinite == Init /\ [][NextFinite]_vars /\ WF_vars(NextFinite)

\* ------------------------------------------------------------------ a cyclic chain
\* The server's continuation pointers form a cycle and every fetch succeeds:
\* every response carries a pointer, the same address always carries the same
\* pointer (with two addresses the third page at the latest leads back to
\* itself or to an earlier page), and every request can be built.
CyclicChain ==
    /\ \A i \in 1..Len(log) : log[i].err = Nil
    /\ \A i \in 1..Len(log) : NextOf(log[i].resp) # ""
    /\ \A i, j \in 1..Len(log) :
          log[i].req = log[j].req => NextOf(log[i].resp) = NextOf(log[j].resp)
    /\ ret.err = Nil

InitCycle == Init /\ FollowPagination = TRUE

NextCycle ==
    \/ ListNewRequest /\ CyclicChain'
    \/ ListDo /\ CyclicChain'
    \/ ListNextRequest /\ CyclicChain'
    \/ ListNextDo /\ CyclicChain'
    \/ GetNewRequest /\ CyclicChain'
    \/ GetDo /\ CyclicChain'
    \/ GetNextRequest /\ CyclicChain'
    \/ GetNextDo /\ CyclicChain'

SpecCycle == InitCycle /\ [][NextCycle]_vars /\ WF_vars(NextCycle)

\* ------------------------------------------------------------------ concurrent calls
\* Two goroutines call operations of the one client at the same time. Each
\* call's steps are the operation's steps above, on the call's own locals;
\* the steps of the two calls interleave at the calls into the client
\* (NewRequest, Do). The zone objects live in `heap`, where a call given a
\* pointer reads and writes them.

\* The number of exchanges executed so far by all calls together: exchanges
\* are numbered in the order the transport executes them.
Exchanges == Len(calls[1].log) + Len(calls[2].log)

\* The Link headers and errors the server answers with here.
ConcLinks == {<< >>, << [uri |-> "u1", rel |-> "next"] >>}

ConcErrors(n) == {e \in DoErrors(n) : e.type = "*Error" /\ e.Message = "zone already exists"}

\* client.Do(req, v) for exchange n, with the answers above.
ConcDo(bodies, n) ==
    { o \in Do(bodies, n) :
        IF o.err = Nil
        THEN o.resp[1].Link \in ConcLinks
        ELSE o.resp = Nil /\ o.err[1] \in ConcErrors(n) }

\* The pages and zone bodies the server answers with here.
ConcPages == {pg \in ZonePages : Len(pg) = 1}

ConcZones(name) == {b \in ZonesNamed(name) : b.Records = << >>}

\* The log of call c after executing its pending request with outcome o.
ConcLogged(c, o) ==
    Append(c.log, [req |-> c.req, resp |-> o.resp, err |-> o.err, body |-> o.body])

\* Mutant of Accumulator: the calls append to one accumulator they share.
AccumulatorShared(p) == calls[1].zl

\* zl := []*dns.Zone{} (line 23): the accumulator is a local of the call.
Accumulator(p) == calls[p].zl

\* List, lines 17-23, in call p.
ConcListNewRequest(p) ==
    /\ calls[p].pc = "idle"
    /\ \E r \in NewRequest("GET", <<"zones">>, Nil, Exchanges) :
          calls' = [calls EXCEPT ![p] =
              IF ListRequestFailed(r.err)
              THEN [@ EXCEPT !.op = "List", !.start = Exchanges,
                             !.ret = Ret(Nil, Nil, r.err), !.pc = "done"]
              ELSE [@ EXCEPT !.op = "List", !.start = Exchanges,
                             !.req = r.req, !.zl = << >>, !.pc = "do"]]
    /\ UNCHANGED <<heap, FollowPagination, callVars>>

\* List, lines 24-41, in call p.
ConcListDo(p) ==
    /\ calls[p].pc = "do" /\ calls[p].op = "List"
    /\ \E o \in ConcDo({Some(pg) : pg \in ConcPages}, Exchanges + 1) :
          LET c == calls[p]
              l == ConcLogged(c, o)
          IN calls' = [calls EXCEPT ![p] =
              IF o.err # Nil
              THEN [c EXCEPT !.log = l, !.resp = o.resp,
                             !.ret = Ret(Nil, o.resp, o.err), !.pc = "done"]
              ELSE IF ListFollows /\ ListContinues(NextOf(o.resp))
                   THEN [c EXCEPT !.log = l, !.resp = o.resp, !.zl = o.body[1],
                                  !.nextURI = NextOf(o.resp), !.pc = "next"]
                   ELSE [c EXCEPT !.log = l, !.resp = o.resp, !.zl = o.body[1],
                                  !.nextURI = IF ListFollows THEN NextOf(o.resp) ELSE "",
                                  !.ret = ListReturn(o.body[1], o.resp, c.nextResp),
                                  !.pc = "done"]]
    /\ UNCHANGED <<heap, FollowPagination, callVars>>

\* nextZones, lines 82-86, in call p.
ConcListNextRequest(p) ==
    /\ calls[p].pc = "next" /\ calls[p].op = "List"
    /\ \E r \in NewRequest("GET", ListNextTarget(calls[p].nextURI), Nil, Exchanges) :
          LET c == calls[p]
          IN calls' = [calls EXCEPT ![p] =
              IF r.err # Nil
              THEN [c EXCEPT !.nextResp = Nil,
                             !.ret = ListWalkError(c.zl, c.resp, Nil, r.err),
                             !.pc = "done"]
              ELSE [c EXCEPT !.req = r.req, !.pc = "nextDo"]]
    /\ UNCHANGED <<heap, FollowPagination, callVars>>

\* nextZones, lines 87-95, and the loop of List, lines 32-41, in call p.
ConcListNextDo(p) ==
    /\ calls[p].pc = "nextDo" /\ calls[p].op = "List"
    /\ Len(calls[p].log) < MaxCalls
    /\ \E o \in ConcDo({Some(pg) : pg \in ConcPages}, Exchanges + 1) :
          LET c == calls[p]
              l == ConcLogged(c, o)
              acc == IF o.err # Nil
                     THEN ListFailedStep(Accumulator(p))
                     ELSE AppendZones(Accumulator(p), o.body[1])
          IN calls' = [calls EXCEPT ![p] =
              IF o.err # Nil
              THEN [c EXCEPT !.log = l, !.nextResp = Nil, !.zl = acc,
                             !.ret = ListWalkError(acc, c.resp, Nil, o.err),
                             !.pc = "done"]
              ELSE IF ListContinues(NextOf(o.resp))
                   THEN [c EXCEPT !.log = l, !.nextResp = o.resp, !.zl = acc,
                                  !.nextURI = NextOf(o.resp), !.pc = "next"]
                   ELSE [c EXCEPT !.log = l, !.nextResp = o.resp, !.zl = acc,
                                  !.nextURI = NextOf(o.resp),
                                  !.ret = ListReturn(acc, c.resp, o.resp),
                                  !.pc = "done"]]
    /\ UNCHANGED <<heap, FollowPagination, callVars>>

\* Create, lines 119-125, in call p: the request carries the zone object the
\* caller's pointer names, as it is now.
ConcCreateNewRequest(p) ==
    /\ calls[p].pc = "idle"
    /\ \E ptr \in ObjIds :
          \E r \in NewRequest("PUT", CreatePath(heap[ptr].Zone), Some(heap[ptr]), Exchanges) :
              calls' = [calls EXCEPT ![p] =
                  IF r.err # Nil
                  THEN [@ EXCEPT !.op = "Create", !.start = Exchanges, !.ptr = ptr,
                                 !.ret = Ret(Nil, Nil, r.err), !.pc = "done"]
                  ELSE [@ EXCEPT !.op = "Create", !.start = Exchanges, !.ptr = ptr,
                                 !.req = r.req, !.pc = "do"]]
    /\ UNCHANGED <<heap, FollowPagination, callVars>>

\* Create, lines 127-139, in call p: the response body is decoded into the
\* zone object the caller's pointer names.
ConcCreateDo(p) ==
    /\ calls[p].pc = "do" /\ calls[p].op = "Create"
    /\ \E o \in ConcDo({Some(b) : b \in ConcZones(heap[calls[p].ptr].Zone)}, Exchanges + 1) :
          LET c == calls[p]
              l == ConcLogged(c, o)
          IN IF o.err # Nil
             THEN /\ calls' = [calls EXCEPT ![p] =
                         [c EXCEPT !.log = l, !.resp = o.resp,
                                   !.ret = Ret(Nil, o.resp, Some(CreateError(o.err[1]))),
                                   !.pc = "done"]]
                  /\ UNCHANGED heap
             ELSE /\ calls' = [calls EXCEPT ![p] =
                         [c EXCEPT !.log = l, !.resp = o.resp,
                                   !.ret = Ret(Nil, o.resp, Nil), !.pc = "done"]]
                  /\ heap' = [heap EXCEPT ![c.ptr] = CreateDecoded(@, o.body[1])]
    /\ UNCHANGED <<FollowPagination, callVars>>

\* Update, lines 145-151, in call p.
ConcUpdateNewRequest(p) ==
    /\ calls[p].pc = "idle"
    /\ \E ptr \in ObjIds :
          \E r \in NewRequest("POST", UpdatePath(heap[ptr].Zone), Some(heap[ptr]), Exchanges) :
              calls' = [calls EXCEPT ![p] =
                  IF r.err # Nil
                  THEN [@ EXCEPT !.op = "Update", !.start = Exchanges, !.ptr = ptr,
                                 !.ret = Ret(Nil, Nil, r.err), !.pc = "done"]
                  ELSE [@ EXCEPT !.op = "Update", !.start = Exchanges, !.ptr = ptr,
                                 !.req = r.req, !.pc = "do"]]
    /\ UNCHANGED <<heap, FollowPagination, callVars>>

\* Update, lines 153-165, in call p.
ConcUpdateDo(p) ==
    /\ calls[p].pc = "do" /\ calls[p].op = "Update"
    /\ \E o \in ConcDo({Some(b) : b \in ConcZones(heap[calls[p].ptr].Zone)}, Exchanges + 1) :
          LET c == calls[p]
              l == ConcLogged(c, o)
          IN IF o.err # Nil
             THEN /\ calls' = [calls EXCEPT ![p] =
                         [c EXCEPT !.log = l, !.resp = o.resp,
                                   !.ret = Ret(Nil, o.resp, Some(UpdateError(o.err[1]))),
                                   !.pc = "done"]]
                  /\ UNCHANGED heap
             ELSE /\ calls' = [calls EXCEPT ![p] =
                         [c EXCEPT !.log = l, !.resp = o.resp,
                                   !.ret = Ret(Nil, o.resp, Nil), !.pc = "done"]]
                  /\ heap' = [heap EXCEPT ![c.ptr] = UpdateDecoded(@, o.body[1])]
    /\ UNCHANGED <<FollowPagination, callVars>>

NextConc ==
    \/ \E p \in Procs : ConcListNewRequest(p)
    \/ \E p \in Procs : ConcListDo(p)
    \/ \E p \in Procs : ConcListNextRequest(p)
    \/ \E p \in Procs : ConcListNextDo(p)
    \/ \E p \in Procs : ConcCreateNewRequest(p)
    \/ \E p \in Procs : ConcCreateDo(p)
    \/ \E p \in Procs : ConcUpdateNewRequest(p)
    \/ \E p \in Procs : ConcUpdateDo(p)

SpecConc == Init /\ [][NextConc]_vars

\* ================================================================== claims
Done == pc = "done"

\* The continuation pointer carried by the response of exchange i.
Pointer(i) == NextOf(log[i].resp)

AllSucceeded == \A i \in 1..Len(log) : log[i].err = Nil

\* Every exchange succeeded and only the last response has no pointer.
CompleteChain ==
    /\ Len(log) >= 1
    /\ AllSucceeded
    /\ \A i \in 1..Len(log) : (Pointer(i) = "") <=> (i = Len(log))

\* Number of zones carried by the first k pages of a listing.
RECURSIVE ZonesBefore(_)
ZonesBefore(k) == IF k = 0 THEN 0 ELSE ZonesBefore(k - 1) + Len(log[k].body[1])

\* Number of records carried by the first k pages of a zone.
RECURSIVE RecordsBefore(_)
RecordsBefore(k) ==
    IF k = 0 THEN 0 ELSE RecordsBefore(k - 1) + Len(log[k].body[1].Records)

\* C1: with FollowPagination enabled, when List has walked a chain of N >= 1
\* pages that all succeeded and only the last has an empty continuation
\* pointer, it returns a nil error and a list whose length is the sum of the
\* pages' lengths and whose items are the pages' items, page after page in
\* fetch order, each page's items in the page's order.
C1_ListConcatenatesPages ==
    (Done /\ op = "List" /\ FollowPagination /\ CompleteChain) =>
        /\ ret.err = Nil
        /\ ret.data # Nil
        /\ Len(ret.data[1]) = ZonesBefore(Len(log))
        /\ \A k \in 1..Len(log) : \A i \in 1..Len(log[k].body[1]) :
              ret.data[1][ZonesBefore(k - 1) + i] = log[k].body[1][i]

C1_Witness ==
    /\ Done /\ op = "List" /\ FollowPagination /\ CompleteChain
    /\ Len(log) = 3
    /\ log[1].body = Some(<<"a", "b">>)
    /\ log[2].body = Some(<<"b">>)
    /\ log[3].body = Some(<<"b", "a">>)
    /\ ret = Ret(Some(<<"a", "b", "b", "b", "a">>), log[1].resp, Nil)

\* C2: with FollowPagination enabled, when Get has walked a chain of pages
\* that all succeeded, the returned zone's records are the pages' records,
\* page after page in fetch order, and its other fields are those decoded
\* from the first page, whatever the follow-up pages carried.
C2_GetConcatenatesRecords ==
    (Done /\ op = "Get" /\ FollowPagination /\ CompleteChain) =>
        /\ ret.err = Nil
        /\ ret.data # Nil
        /\ Len(ret.data[1].Records) = RecordsBefore(Len(log))
        /\ \A k \in 1..Len(log) : \A i \in 1..Len(log[k].body[1].Records) :
              ret.data[1].Records[RecordsBefore(k - 1) + i] = log[k].body[1].Records[i]
        /\ ret.data[1].Zone = log[1].body[1].Zone
        /\ ret.data[1].TTL = log[1].body[1].TTL

C2_Witness ==
    /\ Done /\ op = "Get" /\ FollowPagination /\ CompleteChain
    /\ Len(log) = 3
    /\ log[1].body = Some([Zone |-> "a", TTL |-> "t1", Records |-> <<"r2", "r1">>])
    /\ log[2].body = Some([Zone |-> "a", TTL |-> "t2", Records |-> <<"r1">>])
    /\ log[3].body = Some([Zone |-> "a", TTL |-> "t2", Records |-> <<"r1", "r2">>])
    /\ ret.data = Some([Zone |-> "a", TTL |-> "t1",
                         Records |-> <<"r2", "r1", "r1", "r1", "r2">>])
    /\ ret.err = Nil

\* C3: with FollowPagination disabled, List and Get never build or issue a
\* follow-up request: once the initial request was executed the log holds
\* exactly that one exchange, and on success the data returned is the first
\* page's, even when its response carries a continuation pointer.
C3_NoFollowWhenDisabled ==
    (~FollowPagination /\ op \in {"List", "Get"}) =>
        /\ pc \notin {"next", "nextDo"}
        /\ Len(log) <= 1
        /\ (Done /\ ret.err = Nil) =>
              /\ Len(log) = 1
              /\ log[1].req # Nil /\ log[1].req[1].method = "GET"
              /\ ret.data = log[1].body
              /\ ret.resp = log[1].resp

C3_Witness ==
    /\ ~FollowPagination /\ op = "List" /\ Done
    /\ Len(log) = 1 /\ log[1].err = Nil
    /\ Pointer(1) = "u2"
    /\ ret = Ret(Some(<<"b", "a">>), log[1].resp, Nil)

\* A structured server error carrying message m, produced by exchange n.
ServerError(m, n) == [type |-> "*Error", Message |-> m, id |-> n]

\* C4: when the request of Create fails with a structured server error whose
\* message is "zone already exists", Create returns the sentinel
\* ErrZoneExists and not the error that carries the message.
C4_CreateExistsSentinel ==
    (Done /\ op = "Create" /\ Len(log) = 1
          /\ log[1].err = Some(ServerError("zone already exists", 1))) =>
        /\ ret.err = Some(ErrZoneExists)
        /\ ret.err # log[1].err

C4_Witness ==
    /\ Done /\ op = "Create" /\ Len(log) = 1
    /\ log[1].req # Nil /\ log[1].req[1].method = "PUT"
    /\ log[1].err = Some(ServerError("zone already exists", 1))
    /\ ret.err = Some(ErrZoneExists)

\* C5: when the initial request of Get, or the request of Update or Delete,
\* fails with a structured server error whose message is "zone not found",
\* the operation returns ErrZoneMissing, the same value in all three.
C5_MissingSentinel ==
    (Done /\ op \in {"Get", "Update", "Delete"} /\ Len(log) = 1
          /\ log[1].err = Some(ServerError("zone not found", 1))) =>
        ret.err = Some(ErrZoneMissing)

C5_Witness ==
    /\ Done /\ op = "Delete" /\ Len(log) = 1
    /\ log[1].req # Nil /\ log[1].req[1].method = "DELETE"
    /\ log[1].err = Some(ServerError("zone not found", 1))
    /\ log[1].resp # Nil
    /\ ret = Ret(Nil, log[1].resp, Some(ErrZoneMissing))

\* The structured errors an operation replaces by a sentinel.
Known(o, e) ==
    /\ e.type = "*Error"
    /\ \/ o = "Create" /\ e.Message = "zone already exists"
       \/ o \in {"Get", "Update", "Delete"} /\ e.Message = "zone not found"

\* C6: when the exchange that ended a call failed with an error that is not
\* a structured error carrying the message known for the operation (an
\* opaque error, another message, "zone not found" on Create, "zone already
\* exists" on Get / Update / Delete, anything on List), the caller gets that
\* very error value: no sentinel in its place, and never a nil error.
C6_OtherErrorsPassThrough ==
    (Done /\ Len(log) >= 1 /\ log[Len(log)].err # Nil
          /\ ~Known(op, log[Len(log)].err[1])) =>
        ret.err = log[Len(log)].err

C6_Witness ==
    /\ Done /\ op = "Create" /\ Len(log) = 1
    /\ log[1].err = Some(ServerError("zone not found", 1))
    /\ ret.err = log[1].err

\* C7: whenever List or Get returns a non-nil error the data returned is
\* nil, also when the error comes from a follow-up page after pages were
\* fetched and accumulated.
C7_ErrorMeansNoData ==
    (Done /\ op \in {"List", "Get"} /\ ret.err # Nil) => ret.data = Nil

C7_Witness ==
    /\ Done /\ op = "List" /\ Len(log) = 3
    /\ log[1].body = Some(<<"a", "b">>)
    /\ log[2].body = Some(<<"b">>)
    /\ log[3].err # Nil
    /\ zl = <<"a", "b", "b">>
    /\ ret.err = log[3].err
    /\ ret.data = Nil

\* A List or Get walk ended on a follow-up request that failed: either its
\* exchange failed, or it could not be built after the exchanges so far.
FollowUpExchangeFailed == Len(log) >= 2 /\ log[Len(log)].err # Nil
FollowUpBuildFailed == Len(log) >= 1 /\ AllSucceeded /\ ret.err # Nil
FollowUpFailed ==
    /\ Done /\ op \in {"List", "Get"}
    /\ FollowUpExchangeFailed \/ FollowUpBuildFailed

\* The last exchange of the walk that succeeded.
LastSucceeded == IF log[Len(log)].err # Nil THEN Len(log) - 1 ELSE Len(log)

\* C8 as stated: after a failed follow-up the response returned with the
\* error is that of the last exchange that succeeded (page k-1 for a
\* failure on page k).
C8_Original ==
    (Done /\ op \in {"List", "Get"} /\ FollowUpExchangeFailed) =>
        ret.resp = log[Len(log) - 1].resp

\* C8, amended: after a failed follow-up the response returned with the
\* error is that of the initial request, never the failed follow-up's; it
\* is the last succeeded exchange's only when one page had been fetched.
C8_FirstResponseOnWalkError ==
    FollowUpFailed =>
        /\ ret.resp # Nil
        /\ ret.resp = log[1].resp
        /\ FollowUpExchangeFailed => ret.resp # log[Len(log)].resp
        /\ (ret.resp = log[LastSucceeded].resp) <=> (LastSucceeded = 1)

C8_Witness ==
    /\ FollowUpFailed /\ op = "Get" /\ Len(log) = 3
    /\ log[2].err = Nil
    /\ log[3].err # Nil /\ log[3].resp # Nil
    /\ ret.resp = log[1].resp
    /\ ret.resp[1].id = 1

\* C9 as stated: on success List returns the response of the last page
\* fetched.
C9_Original ==
    (Done /\ op = "List" /\ ret.err = Nil) => ret.resp = log[Len(log)].resp

\* C9, amended: on success List returns the response of its initial
\* request, the first page's, for every number N >= 1 of pages fetched; it
\* is the last response encountered only when N = 1.
C9_ListReturnsFirstResponse ==
    (Done /\ op = "List" /\ ret.err = Nil) =>
        /\ Len(log) >= 1
        /\ ret.resp = log[1].resp
        /\ (ret.resp = log[Len(log)].resp) <=> (Len(log) = 1)

C9_Witness ==
    /\ Done /\ op = "List" /\ ret.err = Nil
    /\ Len(log) = 3
    /\ ret.resp = log[1].resp
    /\ ret.resp[1].id = 1 /\ log[3].resp[1].id = 3

\* The call returned the construction error of a request it failed to build.
ConstructionError == Done /\ ret.err # Nil /\ ret.err[1].type = "construct"

\* C10: a request that could not be built is never executed: every exchange
\* of the log carries a built request; a call that returns a construction
\* error has executed exactly the exchanges that preceded the construction,
\* the error returned is that construction's, and when the request was the
\* initial one no exchange was executed and the response returned is nil.
C10_NoCallAfterConstructionError ==
    /\ \A i \in 1..Len(log) : log[i].req # Nil
    /\ ConstructionError =>
          /\ ret.err[1].id = Len(log)
          /\ AllSucceeded
          /\ Len(log) = 0 => ret.resp = Nil
          /\ Len(log) > 0 => op \in {"List", "Get"} /\ Pointer(Len(log)) # ""

C10_Witness ==
    /\ ConstructionError /\ op = "List"
    /\ Len(log) = 2
    /\ Pointer(2) = "u1"
    /\ ret = Ret(Nil, log[1].resp, Some([type |-> "construct", Message |-> "invalid URL", id |-> 2]))

\* A request as client.NewRequest builds it.
Request(method, path, body) == Some([method |-> method, path |-> path, body |-> body])

\* C11: during a walk the requests are issued one after the other and none
\* is repeated: exchange k > 1 of a List or Get is a GET, without a body, to
\* exactly the address of the continuation pointer of response k-1, which had
\* succeeded; no exchange follows a failed one; a walk that returns without
\* error has fetched the whole chain, one exchange per page, and the other
\* operations execute at most one exchange.
C11_WalkIsSequential ==
    /\ \A i \in 2..Len(log) :
          /\ op \in {"List", "Get"}
          /\ log[i - 1].err = Nil
          /\ Pointer(i - 1) # ""
          /\ log[i].req = Request("GET", <<Pointer(i - 1)>>, Nil)
    /\ (Done /\ op \in {"List", "Get"} /\ FollowPagination /\ ret.err = Nil) =>
          CompleteChain

C11_Witness ==
    /\ Done /\ op = "List" /\ Len(log) = 3
    /\ Pointer(1) = "u2" /\ Pointer(2) = "u1"
    /\ log[2].req = Request("GET", <<"u2">>, Nil)
    /\ log[3].req = Request("GET", <<"u1">>, Nil)
    /\ log[3].err # Nil

\* The initial request each operation builds from its arguments.
InitialRequest ==
    CASE op = "List" -> Request("GET", <<"zones">>, Nil)
      [] op = "Get" -> Request("GET", <<"zones", zone>>, Nil)
      [] op = "Delete" -> Request("DELETE", <<"zones", zone>>, Nil)
      [] op = "Create" -> Request("PUT", <<"zones", req[1].body[1].Zone>>, req[1].body)
      [] op = "Update" -> Request("POST", <<"zones", req[1].body[1].Zone>>, req[1].body)

\* C12: the initial request of each operation has the fixed method and
\* path: GET zones for List, GET zones/name for Get, DELETE zones/name
\* without a body for Delete, PUT (Create) and POST (Update) to zones/z.Zone
\* with the caller's zone as body; the name goes into the path as given,
\* also when it is empty or holds a path separator.
C12_InitialRequestShape ==
    /\ pc = "do" =>
          /\ req = InitialRequest
          /\ op \in {"Create", "Update"} => req[1].body = Some(callerZone)
    /\ Len(log) >= 1 =>
          /\ log[1].req # Nil
          /\ op = "List" => log[1].req = Request("GET", <<"zones">>, Nil)
          /\ op = "Get" => log[1].req = Request("GET", <<"zones", zone>>, Nil)
          /\ op = "Delete" => log[1].req = Request("DELETE", <<"zones", zone>>, Nil)
          /\ op = "Create" =>
                /\ log[1].req[1].method = "PUT"
                /\ log[1].req[1].body # Nil
                /\ log[1].req[1].path = <<"zones", log[1].req[1].body[1].Zone>>
          /\ op = "Update" =>
                /\ log[1].req[1].method = "POST"
                /\ log[1].req[1].body # Nil
                /\ log[1].req[1].path = <<"zones", log[1].req[1].body[1].Zone>>

C12_Witness ==
    /\ op = "Get" /\ zone = "a/b" /\ Done
    /\ Len(log) = 1
    /\ log[1].req = Request("GET", <<"zones", "a/b">>, Nil)

\* C13: after a Create or Update whose exchange succeeded, the zone the
\* caller passed holds what the response body carried, and the error
\* returned is nil.
C13_ResponseDecodedIntoCallerZone ==
    (Done /\ op \in {"Create", "Update"} /\ Len(log) = 1 /\ log[1].err = Nil) =>
        /\ ret.err = Nil
        /\ callerZone = log[1].body[1]

C13_Witness ==
    /\ Done /\ op = "Update" /\ Len(log) = 1 /\ log[1].err = Nil
    /\ log[1].req[1].body = Some([Zone |-> "b", TTL |-> "t1", Records |-> <<"r1">>])
    /\ log[1].body = Some([Zone |-> "b", TTL |-> "t2", Records |-> <<"r1", "r2">>])
    /\ callerZone = [Zone |-> "b", TTL |-> "t2", Records |-> <<"r1", "r2">>]
    /\ ret.err = Nil

\* C16 as stated: Get never returns a structured error whose message is
\* "zone not found"; whichever exchange of the call failed with that
\* message, the initial one or a follow-up, Get returns ErrZoneMissing.
C16_GetNeverRawNotFound ==
    (Done /\ op = "Get" /\ ret.err # Nil) =>
        /\ ~(ret.err[1].type = "*Error" /\ ret.err[1].Message = "zone not found")
        /\ (Len(log) >= 1
              /\ log[Len(log)].err = Some(ServerError("zone not found", Len(log)))) =>
              ret.err = Some(ErrZoneMissing)

\* C17: when a follow-up fails during a List or Get walk, the response
\* returned with the error is the one the initial request produced, the
\* value held by resp since then, and none of the follow-ups' responses,
\* however many of them had succeeded.
C17_OriginalResponseOnWalkError ==
    FollowUpFailed =>
        /\ ret.resp = resp
        /\ resp = log[1].resp
        /\ ret.resp[1].id = 1
        /\ \A k \in 2..Len(log) : ret.resp # log[k].resp

C17_Witness ==
    /\ FollowUpFailed /\ op = "List" /\ Len(log) = 3
    /\ log[2].err = Nil /\ log[2].resp[1].Link = <<[uri |-> "u2", rel |-> "next"]>>
    /\ log[3].err # Nil
    /\ ret.resp = Some([id |-> 1, Link |-> <<[uri |-> "u1", rel |-> "next"]>>])

\* C18: the accumulator always holds exactly the items of the exchanges
\* that succeeded, in fetch order: a follow-up that fails adds nothing and
\* removes nothing, so after it List's zl is the pages fetched before it and
\* Get's z is the first page's zone with the records of the pages fetched
\* before it.
C18_FailedStepKeepsAccumulator ==
    (op \in {"List", "Get"} /\ Len(log) >= 1 /\ LastSucceeded >= 1) =>
        /\ op = "List" =>
              /\ Len(zl) = ZonesBefore(LastSucceeded)
              /\ \A k \in 1..LastSucceeded : \A i \in 1..Len(log[k].body[1]) :
                    zl[ZonesBefore(k - 1) + i] = log[k].body[1][i]
        /\ op = "Get" =>
              /\ Len(z.Records) = RecordsBefore(LastSucceeded)
              /\ \A k \in 1..LastSucceeded : \A i \in 1..Len(log[k].body[1].Records) :
                    z.Records[RecordsBefore(k - 1) + i] = log[k].body[1].Records[i]
              /\ z.Zone = log[1].body[1].Zone
              /\ z.TTL = log[1].body[1].TTL

C18_Witness ==
    /\ FollowUpFailed /\ op = "List" /\ Len(log) = 3
    /\ log[1].body = Some(<<"b">>)
    /\ log[2].body = Some(<<"a", "b">>)
    /\ log[3].err = Some([type |-> "opaque", Message |-> "EOF", id |-> 3])
    /\ zl = <<"b", "a", "b">>

\* The response of the last exchange lets the walk go on.
LastPointsOn ==
    /\ Len(log) >= 1
    /\ log[Len(log)].err = Nil
    /\ Pointer(Len(log)) # ""

\* No exchange and no request follows a failed exchange or a response
\* without continuation pointer, and a walk that has an exchange behind it
\* and a pointer to follow has not returned unless building the follow-up
\* failed.
WalkStopsExactlyAtEnd ==
    op \in {"List", "Get"} =>
        /\ \A i \in 1..(Len(log) - 1) : log[i].err = Nil /\ Pointer(i) # ""
        /\ pc \in {"next", "nextDo"} => FollowPagination /\ LastPointsOn
        /\ (Done /\ FollowPagination /\ LastPointsOn) => ConstructionError

\* C15: the walk ends exactly when a response without continuation pointer
\* arrives or a fetch fails: when the server's chain of pages is finite and
\* every HTTP call returns, every call of List and Get (and of the other
\* operations) eventually returns, and no request is ever issued after a
\* response with an empty pointer.
C15_WalkTerminates == []WalkStopsExactlyAtEnd /\ <>Done

C15_Witness ==
    /\ Done /\ op = "Get" /\ FollowPagination /\ CompleteChain
    /\ Len(log) = 3
    /\ Pointer(1) = "u1" /\ Pointer(2) = "u1" /\ Pointer(3) = ""
    /\ log[3].resp[1].Link = <<[uri |-> "u2", rel |-> "prev"]>>
    /\ ret.err = Nil

\* The number of items List or Get has accumulated.
AccSize == IF op = "List" THEN Len(zl) ELSE Len(z.Records)

\* The number of items of the page the latest exchange carried.
LastPageSize ==
    IF op = "List"
    THEN Len(log[Len(log)].body[1])
    ELSE Len(log[Len(log)].body[1].Records)

\* An exchange was executed in this step.
Fetched == Len(log') = Len(log) + 1

\* A follow-up exchange of the walk was executed in this step.
FollowUpFetched == Len(log) >= 1 /\ Fetched

\* C19 as stated: on a cyclic chain whose fetches all succeed List and Get
\* never return, and the accumulator grows with every fetch.
C19_Original ==
    /\ []~Done
    /\ [][FollowUpFetched => AccSize' > AccSize]_vars

\* C19, amended: on a cyclic chain whose fetches all succeed List and Get
\* never return; once the first page is in they go on issuing requests (up
\* to the MaxCalls exchanges followed here), and every fetch adds the items
\* of its page to the accumulator, which never shrinks and grows whenever
\* the page holds an item.
C19_CycleNeverReturns ==
    /\ []~Done
    /\ (Len(log) >= 1) ~> (Len(log) = MaxCalls /\ pc = "nextDo")
    /\ [][Fetched => AccSize' = AccSize + LastPageSize']_vars

C19_Witness ==
    /\ op = "List" /\ pc = "nextDo" /\ Len(log) = 3
    /\ log[2].req = Request("GET", <<"u1">>, Nil)
    /\ log[3].req = Request("GET", <<"u2">>, Nil)
    /\ req = Request("GET", <<"u1">>, Nil)
    /\ zl = <<"a", "b", "a", "b", "a", "b">>

\* ------------------------------------------------------------------ C14
ConcDone == \A p \in Procs : calls[p].pc = "done"

\* Call p was given a pointer to a zone object.
Writes(p) == calls[p].op \in {"Create", "Update"}

\* Both calls were given a pointer to the same zone object.
SameObject ==
    \E p, q \in Procs :
        p # q /\ Writes(p) /\ Writes(q) /\ calls[p].ptr = calls[q].ptr

\* The number of the last exchange of call p.
LastExchange(p) == calls[p].log[Len(calls[p].log)].resp[1].id

\* The calls' executions overlapped: each started before the other's last
\* exchange was executed.
Overlapped ==
    \E p, q \in Procs :
        /\ p # q
        /\ Len(calls[p].log) >= 1 /\ calls[p].ret.err = Nil
        /\ Len(calls[q].log) >= 1 /\ calls[q].ret.err = Nil
        /\ calls[q].start < LastExchange(p)
        /\ calls[p].start < LastExchange(q)

\* The items of the pages call p fetched, in the order fetched.
RECURSIVE PagesOf(_, _)
PagesOf(p, k) ==
    IF k = 0 THEN << >> ELSE PagesOf(p, k - 1) \o calls[p].log[k].body[1]

\* The heap after call p ran alone on heap h with the answers p received.
HeapAfter(h, p) ==
    IF Writes(p) /\ Len(calls[p].log) = 1 /\ calls[p].log[1].err = Nil
    THEN [h EXCEPT ![calls[p].ptr] = calls[p].log[1].body[1]]
    ELSE h

\* What call p sent and returned is what it sends and returns when it runs
\* alone on heap h and receives the answers p received.
RunsAloneOn(h, p) ==
    LET c == calls[p]
    IN /\ (Writes(p) /\ c.req # Nil) => c.req[1].body = Some(h[c.ptr])
       /\ (c.op = "List" /\ c.ret.err = Nil) =>
             /\ c.ret.data = Some(PagesOf(p, Len(c.log)))
             /\ c.ret.resp = c.log[1].resp
       /\ (Writes(p) /\ Len(c.log) = 1) =>
             /\ c.ret.resp = c.log[1].resp
             /\ c.ret.data = Nil
             /\ (c.ret.err = Nil) = (c.log[1].err = Nil)

\* Running `first` and then `second`, one after the other, gives what the
\* concurrent execution gave.
SerialExplains(first, second) ==
    /\ RunsAloneOn(InitHeap, first)
    /\ RunsAloneOn(HeapAfter(InitHeap, first), second)
    /\ heap = HeapAfter(HeapAfter(InitHeap, first), second)

Serialisable == \E p, q \in Procs : p # q /\ SerialExplains(p, q)

\* C14 as stated: any two concurrent calls, Create / Update calls given the
\* same zone object included, give the results of running them one after
\* the other in some order.
C14_Original == ConcDone => Serialisable

\* C14: two concurrent calls that were not both given a pointer to the same
\* zone object give what running them one after the other, in some order,
\* gives: the bodies sent, the zone objects afterwards and the results.
C14_SerialUnlessSameObject == (ConcDone /\ ~SameObject) => Serialisable

\* Two overlapping calls on different zone objects, both decoded into; and
\* two overlapping listings of two pages each.
C14_Witness ==
    /\ ConcDone /\ ~SameObject /\ Overlapped
    /\ \/ /\ calls[1].op = "Create" /\ calls[2].op = "Update"
          /\ heap[1].TTL = "t2" /\ heap[2].TTL = "t2"
       \/ /\ calls[1].op = "List" /\ calls[2].op = "List"
          /\ calls[1].ret.data = Some(<<"a", "b">>)
          /\ calls[2].ret.data = Some(<<"b", "a">>)

====
